---- MODULE Spec2Model ----
(***************************************************************************)
(* Model of the Ray Serve client API (python/ray/serve/api.py) talking to  *)
(* a named, detached ServeController actor.  The client functions are      *)
(* translated from api.py; the controller actor and the actor runtime are  *)
(* not part of the sources at hand and are modelled after the design       *)
(* document (sections 3, 4.1, 4.2 and 4.4).                                *)
(***************************************************************************)
EXTENDS Integers, Sequences, FiniteSets, TLC

\* ---------------------------------------------------------------- bounds
MaxOps == 4       \* API calls started by all client processes together
MaxCtrl == 2      \* controller actors ever created
MaxCrash == 1     \* injected controller crashes
MaxWarmOps == 3   \* API calls started after the warm start

\* ---------------------------------------------------------------- inputs
Clients == {"c1", "c2"}
Names == {"serve"}
NotAStr == "<int>"                 \* stands for an argument that is not a str
NoneVal == "<None>"                \* Python None
NameInputs == Names \cup {NotAStr}
Tags == {"b1", "b2"}
BackendInputs == Tags \cup {NoneVal, NotAStr}
Configs == {[num_replicas |-> 2]}
NoneConfig == [none |-> TRUE]      \* config=None
BadConfig == [not_a_config |-> TRUE] \* neither a dict nor a BackendConfig
EndpointNames == {"e1", "e2"}
\* a route is the sequence of its characters
NoneRoute == <<NoneVal>>           \* route=None
BadRoute == <<NotAStr>>            \* a route that is not a str
ValidRoutes == {<<"/", "a">>, NoneRoute}
RouteInputs == ValidRoutes \cup {<<"a">>, BadRoute}
NotAList == <<"<not a list>">>     \* stands for a methods argument that is not a list
ValidMethods == {<<"GET">>, <<"post", "GET">>}
MethodInputs == ValidMethods \cup {<<"GET", NotAStr>>, NotAList}
\* the argument tuples create_endpoint is called with: every combination of
\* well-formed arguments, and one call for each malformed argument
CreateEndpointInputs ==
    {<<e, b, r, m>> : e \in EndpointNames, b \in Tags, r \in ValidRoutes, m \in ValidMethods}
    \cup {<<"e1", b, <<"/", "a">>, <<"GET">> >> : b \in BackendInputs \ Tags}
    \cup {<<"e1", "b1", r, <<"GET">> >> : r \in RouteInputs \ ValidRoutes}
    \cup {<<"e1", "b1", <<"/", "a">>, m>> : m \in MethodInputs \ ValidMethods}
\* weights and proportions are counted in tenths: 10 stands for 1.0
WeightInputs == {[t \in {"b1"} |-> 10], [t \in Tags |-> 5], [t \in {"b1"} |-> 5]}
NotANumber == [not_a_number |-> TRUE]
ValidProportions == {[tenths |-> k] : k \in {0, 10}}
ProportionInputs == ValidProportions \cup {[tenths |-> k] : k \in {-1, 11}} \cup {NotANumber}
ShadowTrafficInputs ==
    {<<e, t, p>> : e \in EndpointNames, t \in Tags, p \in ValidProportions}
    \cup {<<"e1", "b2", p>> : p \in ProportionInputs \ ValidProportions}

EmptyFcn == [x \in {} |-> 0]
EmptyReg == [backends |-> EmptyFcn, endpoints |-> EmptyFcn]
NoCheckpoint == [none |-> TRUE]

Range(s) == {s[i] : i \in DOMAIN s}
Remove(f, k) == [x \in DOMAIN f \ {k} |-> f[x]]
Put(f, k, v) == [x \in DOMAIN f \cup {k} |-> IF x = k THEN v ELSE f[x]]

\* ---------------------------------------------------------------- state
VARIABLES
    named,       \* actor runtime: name -> id of the live actor registered under it (0: none)
    nextId,      \* actor runtime: id given to the next actor created
    reg,         \* controller memory: name -> [backends, endpoints]
    up,          \* the controller process is running (FALSE: crashed, restart pending)
    shutting,    \* the controller has run its own shutdown teardown
    checkpoint,  \* durable snapshot per controller name
    crashes,     \* crashes injected so far
    controller,  \* api.py global `controller` of each client process (0: None)
    pc,          \* position of each client inside the API call it is running
    call,        \* arguments (and pending request) of the API call a client is running
    last,        \* the API call that returned or raised last: who, what, outcome
    nops         \* number of API calls that have returned or raised

vars == <<named, nextId, reg, up, shutting, checkpoint, crashes, controller, pc, call, last, nops>>
ctrlVars == <<named, nextId, reg, up, shutting, checkpoint, crashes>>

NoCall == [op |-> "none"]
\* sent: the strongest controller call the API call issued: "none", "read" or "mutation"
NoLast == [client |-> "none", args |-> NoCall, outcome |-> "none", sent |-> "none"]

Init ==
    /\ named = [n \in Names |-> 0]
    /\ nextId = 1
    /\ reg = [n \in Names |-> EmptyReg]
    /\ up = [n \in Names |-> TRUE]
    /\ shutting = [n \in Names |-> FALSE]
    /\ checkpoint = [n \in Names |-> NoCheckpoint]
    /\ crashes = 0
    /\ controller = [c \in Clients |-> 0]
    /\ pc = [c \in Clients |-> "idle"]
    /\ call = [c \in Clients |-> NoCall]
    /\ last = NoLast
    /\ nops = 0

\* ------------------------------------------------------- actor runtime
Alive(id) == id # 0 /\ \E n \in Names : named[n] = id
\* a live actor holds the name: a second actor cannot be created under it
NameTaken(name) == named[name] # 0
NameOf(id) == CHOOSE n \in Names : named[n] = id

\* --------------------------------------------------- client bookkeeping
Started == Cardinality({c \in Clients : pc[c] # "idle"})
CanStart(c) == pc[c] = "idle" /\ nops + Started < MaxOps

\* the API call of c moves on to its next step
Begin(c, position, args) ==
    /\ pc' = [pc EXCEPT ![c] = position]
    /\ call' = [call EXCEPT ![c] = args]
    /\ UNCHANGED <<last, nops>>

\* the API call of c returns or raises
Finish(c, args, outcome, sent) ==
    /\ pc' = [pc EXCEPT ![c] = "idle"]
    /\ call' = [call EXCEPT ![c] = NoCall]
    /\ last' = [client |-> c, args |-> args, outcome |-> outcome, sent |-> sent]
    /\ nops' = nops + 1

\* mutant: the connection guard lets every call through
_get_controller_unguarded(c) == TRUE

\* _get_controller: None means the process is not connected
_get_controller(c) == controller[c] # 0

\* _ensure_connected raises before the wrapped function sees its arguments
NotConnected(c, op) ==
    /\ Finish(c, [op |-> op], "RayServeException", "none")
    /\ UNCHANGED <<ctrlVars, controller>>

\* ---------------------------------------------------- controller actor
\* Every operation takes the registries r and yields [reg, outcome]: the
\* registries after it and what the caller is told.
Reply(r, outcome) == [reg |-> r, outcome |-> outcome]

\* backends that some endpoint's weights or shadow mapping names
Referenced(r) ==
    UNION {DOMAIN r.endpoints[e].traffic \cup DOMAIN r.endpoints[e].shadow : e \in DOMAIN r.endpoints}

WeightSum(w) ==
    LET RECURSIVE Sum(_)
        Sum(S) == IF S = {} THEN 0
                  ELSE LET t == CHOOSE x \in S : TRUE IN w[t] + Sum(S \ {t})
    IN Sum(DOMAIN w)

\* mutant: the controller takes a second create for a registered tag as done
ctl_create_backend_idempotent(r, tag, config) ==
    IF tag \in DOMAIN r.backends
    THEN Reply(r, "ok")
    ELSE Reply([r EXCEPT !.backends = Put(@, tag, config)], "ok")

ctl_create_backend(r, tag, config) ==
    IF tag \in DOMAIN r.backends
    THEN Reply(r, "ConflictError")
    ELSE Reply([r EXCEPT !.backends = Put(@, tag, config)], "ok")

ctl_update_backend_config(r, tag, options) ==
    IF tag \notin DOMAIN r.backends
    THEN Reply(r, "NotFoundError")
    ELSE Reply([r EXCEPT !.backends = Put(@, tag,
                   [k \in DOMAIN @[tag] \cup DOMAIN options |->
                       IF k \in DOMAIN options THEN options[k] ELSE @[tag][k]])], "ok")

\* mutant: the controller deletes a backend that endpoints still name
ctl_delete_backend_unchecked(r, tag) ==
    IF tag \notin DOMAIN r.backends THEN Reply(r, "NotFoundError")
    ELSE Reply([r EXCEPT !.backends = Remove(@, tag)], "ok")

ctl_delete_backend(r, tag) ==
    IF tag \notin DOMAIN r.backends THEN Reply(r, "NotFoundError")
    ELSE IF tag \in Referenced(r) THEN Reply(r, "ConflictError")
    ELSE Reply([r EXCEPT !.backends = Remove(@, tag)], "ok")

ctl_create_endpoint(r, endpoint, traffic, route, methods) ==
    IF endpoint \in DOMAIN r.endpoints THEN Reply(r, "ConflictError")
    ELSE IF route # NoneRoute /\ \E e \in DOMAIN r.endpoints : r.endpoints[e].route = route
    THEN Reply(r, "ConflictError")
    ELSE IF ~(DOMAIN traffic \subseteq DOMAIN r.backends) THEN Reply(r, "ValidationError")
    ELSE Reply([r EXCEPT !.endpoints = Put(@, endpoint,
                   [route |-> route, methods |-> methods,
                    traffic |-> traffic, shadow |-> EmptyFcn])], "ok")

ctl_delete_endpoint(r, endpoint) ==
    IF endpoint \notin DOMAIN r.endpoints THEN Reply(r, "NotFoundError")
    ELSE Reply([r EXCEPT !.endpoints = Remove(@, endpoint)], "ok")

ctl_set_traffic(r, endpoint, weights) ==
    IF endpoint \notin DOMAIN r.endpoints THEN Reply(r, "NotFoundError")
    ELSE IF WeightSum(weights) # 10 \/ ~(DOMAIN weights \subseteq DOMAIN r.backends)
    THEN Reply(r, "ValidationError")
    ELSE Reply([r EXCEPT !.endpoints[endpoint].traffic = weights], "ok")

ctl_shadow_traffic(r, endpoint, tag, proportion) ==
    IF endpoint \notin DOMAIN r.endpoints THEN Reply(r, "NotFoundError")
    ELSE IF proportion < 0 \/ proportion > 10 \/ tag \notin DOMAIN r.backends
    THEN Reply(r, "ValidationError")
    ELSE IF tag \in DOMAIN r.endpoints[endpoint].traffic THEN Reply(r, "ConflictError")
    ELSE IF proportion = 0
    THEN Reply([r EXCEPT !.endpoints[endpoint].shadow = Remove(@, tag)], "ok")
    ELSE Reply([r EXCEPT !.endpoints[endpoint].shadow = Put(@, tag, proportion)], "ok")

\* the controller method a request names, applied to the registries r
Apply(r, req) ==
    CASE req.method = "create_backend" -> ctl_create_backend(r, req.tag, req.config)
      [] req.method = "update_backend_config" -> ctl_update_backend_config(r, req.tag, req.options)
      [] req.method = "delete_backend" -> ctl_delete_backend(r, req.tag)
      [] req.method = "create_endpoint" ->
             ctl_create_endpoint(r, req.endpoint, req.traffic, req.route, req.methods)
      [] req.method = "delete_endpoint" -> ctl_delete_endpoint(r, req.endpoint)
      [] req.method = "set_traffic" -> ctl_set_traffic(r, req.endpoint, req.weights)
      [] req.method = "shadow_traffic" ->
             ctl_shadow_traffic(r, req.endpoint, req.tag, req.proportion)

\* what a call through the handle of c meets before the method runs: a
\* terminated controller, one that is shutting down, or one that serves
Reach(c) ==
    IF ~Alive(controller[c]) THEN "NotFoundError"
    ELSE IF shutting[NameOf(controller[c])] THEN "UnavailableError"
    ELSE "ok"

\* a call to a crashed controller waits for the restart
Responsive(c) == Alive(controller[c]) => up[NameOf(controller[c])]

\* registries the live controller behind the handle of c holds
RegOf(c) == reg[NameOf(controller[c])]
get_all_backends(c) == RegOf(c).backends
get_all_endpoints(c) == RegOf(c).endpoints

\* ------------------------------------------------------------ serve.init
\* state a freshly started controller reconstructs (Initializing -> Recovering -> Serving)
Recover(cp) == IF cp = NoCheckpoint THEN EmptyReg ELSE cp

\* init, up to the lookup of the named actor
InitLookup(c, name) ==
    /\ CanStart(c)
    /\ LET args == [op |-> "init", name |-> name] IN
       IF name = NotAStr
       THEN /\ Finish(c, args, "TypeError", "none")
            /\ UNCHANGED <<ctrlVars, controller>>
       ELSE IF named[name] # 0
       THEN /\ controller' = [controller EXCEPT ![c] = named[name]]
            /\ Finish(c, args, "ok", "none")
            /\ UNCHANGED ctrlVars
       ELSE /\ Begin(c, "init_create", args)
            /\ UNCHANGED <<ctrlVars, controller>>

\* init, creation of the detached named controller after the lookup failed
InitCreate(c) ==
    /\ pc[c] = "init_create"
    /\ LET name == call[c].name IN
       IF NameTaken(name)
       THEN \* the name was taken since the lookup: the creation raises
            /\ Finish(c, call[c], "ValueError", "none")
            /\ UNCHANGED <<ctrlVars, controller>>
       ELSE /\ nextId <= MaxCtrl
            /\ named' = [named EXCEPT ![name] = nextId]
            /\ nextId' = nextId + 1
            /\ reg' = [reg EXCEPT ![name] = Recover(checkpoint[name])]
            /\ up' = [up EXCEPT ![name] = TRUE]
            /\ shutting' = [shutting EXCEPT ![name] = FALSE]
            /\ controller' = [controller EXCEPT ![c] = nextId]
            /\ Finish(c, call[c], "ok", "none")
            /\ UNCHANGED <<checkpoint, crashes>>

\* -------------------------------------------------------- serve.shutdown
\* what controller.shutdown leaves of the registries and of the checkpoint
ctl_shutdown(r) == [reg |-> EmptyReg, checkpoint |-> NoCheckpoint]

\* shutdown, up to the reply of controller.shutdown
ShutdownCall(c) ==
    /\ CanStart(c)
    /\ IF ~_get_controller(c) THEN NotConnected(c, "shutdown")
       ELSE IF ~Alive(controller[c])
       THEN /\ Finish(c, [op |-> "shutdown"], "NotFoundError", "mutation")
            /\ UNCHANGED <<ctrlVars, controller>>
       ELSE LET name == NameOf(controller[c]) IN
            /\ up[name]
            /\ reg' = [reg EXCEPT ![name] = ctl_shutdown(@).reg]
            /\ checkpoint' = [checkpoint EXCEPT ![name] = ctl_shutdown(reg[name]).checkpoint]
            /\ shutting' = [shutting EXCEPT ![name] = TRUE]
            /\ Begin(c, "shutdown_kill", [op |-> "shutdown"])
            /\ UNCHANGED <<named, nextId, up, crashes, controller>>

\* mutant: shutdown kills nothing
KillTarget_none(c) == 0

\* the actor shutdown hands to ray.kill(controller, no_restart=True)
KillTarget(c) == controller[c]

\* shutdown, ray.kill and controller = None
ShutdownKill(c) ==
    /\ pc[c] = "shutdown_kill"
    /\ IF Alive(KillTarget(c))
       THEN LET name == NameOf(KillTarget(c)) IN
            /\ named' = [named EXCEPT ![name] = 0]
            /\ reg' = [reg EXCEPT ![name] = EmptyReg]
            /\ up' = [up EXCEPT ![name] = TRUE]
            /\ shutting' = [shutting EXCEPT ![name] = FALSE]
       ELSE UNCHANGED <<named, reg, up, shutting>>
    /\ controller' = [controller EXCEPT ![c] = 0]
    /\ Finish(c, call[c], "ok", "mutation")
    /\ UNCHANGED <<nextId, checkpoint, crashes>>

\* ------------------------------------------------- serve.create_endpoint
IsStr(x) == x # NoneVal /\ x # NotAStr
startswith_slash(route) == Len(route) >= 1 /\ route[1] = "/"
\* the route argument passes the check of create_endpoint
RouteAccepted(route) == route = NoneRoute \/ (route # BadRoute /\ startswith_slash(route))

\* str ordering of the method names in use (ASCII: upper case before lower case)
Rank(m) == CASE m = "GET" -> 1 [] m = "POST" -> 2 [] m = "get" -> 3 [] m = "post" -> 4
Upper(m) == CASE m = "get" -> "GET" [] m = "post" -> "POST" [] OTHER -> m

RECURSIVE Insert(_, _)
Insert(x, l) ==
    IF l = <<>> THEN <<x>>
    ELSE IF Rank(x) <= Rank(Head(l)) THEN <<x>> \o l
    ELSE <<Head(l)>> \o Insert(x, Tail(l))
RECURSIVE Sorted(_)
Sorted(l) == IF l = <<>> THEN <<>> ELSE Insert(Head(l), Sorted(Tail(l)))

\* list.sort(): orders the list in place and returns None; comparing a str
\* with a non-str raises TypeError
SortRaises(l) == Len(l) >= 2 /\ NotAStr \in Range(l)
ListSort(l) == [list |-> Sorted(l), ret |-> NoneVal]

\* the duplicate check of create_endpoint on the endpoints read from the
\* controller: "ValueError", "TypeError" (from sort) or "pass"
DuplicateCheck(endpoints, endpoint_name, route, methods) ==
    IF endpoint_name \notin DOMAIN endpoints THEN "pass"
    ELSE IF SortRaises(methods) THEN "TypeError"
    ELSE LET methods_old == endpoints[endpoint_name].methods
             route_old == endpoints[endpoint_name].route
         IN IF ListSort(methods_old).ret = ListSort(methods).ret /\ route_old = route
            THEN "ValueError" ELSE "pass"

\* the methods list as the upper-casing loop sees it: sorted in place when
\* the duplicate check ran
MethodsAfterCheck(endpoints, endpoint_name, methods) ==
    IF endpoint_name \in DOMAIN endpoints THEN ListSort(methods).list ELSE methods

\* mutant: the methods are sent as given
UpperMethods_asgiven(methods) == methods

UpperMethods(methods) == [i \in DOMAIN methods |-> Upper(methods[i])]

InitialTraffic(backend) == [t \in {backend} |-> 10]

\* create_endpoint, up to the request to the controller

\* create_endpoint, up to the request to the controller
CreateEndpointCheck(c, endpoint_name, backend, route, methods) ==
    /\ CanStart(c)
    /\ Responsive(c)
    /\ LET args == [op |-> "create_endpoint", endpoint_name |-> endpoint_name,
                    backend |-> backend, route |-> route, methods |-> methods]
           Raise(outcome, sent) ==
               /\ Finish(c, args, outcome, sent)
               /\ UNCHANGED <<ctrlVars, controller>>
       IN IF ~_get_controller(c) THEN NotConnected(c, "create_endpoint")
          ELSE IF backend = NoneVal \/ ~IsStr(backend) THEN Raise("TypeError", "none")
          ELSE IF ~RouteAccepted(route) THEN Raise("TypeError", "none")
          ELSE IF methods = NotAList THEN Raise("TypeError", "none")
          ELSE IF Reach(c) # "ok" THEN Raise(Reach(c), "read")
          ELSE IF DuplicateCheck(get_all_endpoints(c), endpoint_name, route, methods) # "pass"
          THEN Raise(DuplicateCheck(get_all_endpoints(c), endpoint_name, route, methods), "read")
          ELSE IF NotAStr \in Range(methods) THEN Raise("TypeError", "read")
          ELSE /\ Begin(c, "rpc", [op |-> "create_endpoint",
                       endpoint_name |-> endpoint_name, backend |-> backend,
                       route |-> route, methods |-> methods, applied |-> FALSE,
                       req |-> [method |-> "create_endpoint", endpoint |-> endpoint_name,
                                traffic |-> InitialTraffic(backend), route |-> route,
                                methods |-> UpperMethods(MethodsAfterCheck(
                                    get_all_endpoints(c), endpoint_name, methods))]])
               /\ UNCHANGED <<ctrlVars, controller>>

\* ---------------------------------------------------- one-request calls
\* An API function that checks its arguments and sends one mutating request
\* is described by [args, rejected, req]: rejected is "pass" or the exception
\* the argument check raises, req the request sent to the controller.
delete_endpoint(endpoint) ==
    [args |-> [op |-> "delete_endpoint", endpoint |-> endpoint],
     rejected |-> "pass",
     req |-> [method |-> "delete_endpoint", endpoint |-> endpoint]]

update_backend_config(backend_tag, config_options) ==
    [args |-> [op |-> "update_backend_config", backend_tag |-> backend_tag,
               config_options |-> config_options],
     rejected |-> IF config_options = BadConfig THEN "TypeError" ELSE "pass",
     req |-> [method |-> "update_backend_config", tag |-> backend_tag,
              options |-> config_options]]

delete_backend(backend_tag) ==
    [args |-> [op |-> "delete_backend", backend_tag |-> backend_tag],
     rejected |-> "pass",
     req |-> [method |-> "delete_backend", tag |-> backend_tag]]

set_traffic(endpoint_name, traffic_policy_dictionary) ==
    [args |-> [op |-> "set_traffic", endpoint_name |-> endpoint_name,
               traffic_policy_dictionary |-> traffic_policy_dictionary],
     rejected |-> "pass",
     req |-> [method |-> "set_traffic", endpoint |-> endpoint_name,
              weights |-> traffic_policy_dictionary]]

\* mutant: the bounds of the proportion check are strict
ProportionAccepted_strict(proportion) ==
    proportion # NotANumber /\ 0 < proportion.tenths /\ proportion.tenths < 10

\* isinstance(proportion, (float, int)) and 0 <= proportion <= 1
ProportionAccepted(proportion) ==
    proportion # NotANumber /\ 0 <= proportion.tenths /\ proportion.tenths <= 10

shadow_traffic(endpoint_name, backend_tag, proportion) ==
    [args |-> [op |-> "shadow_traffic", endpoint_name |-> endpoint_name,
               backend_tag |-> backend_tag, proportion |-> proportion],
     rejected |-> IF ProportionAccepted(proportion) THEN "pass" ELSE "TypeError",
     req |-> [method |-> "shadow_traffic", endpoint |-> endpoint_name, tag |-> backend_tag,
              proportion |-> IF proportion = NotANumber THEN 0 ELSE proportion.tenths]]

\* the call with its pending request
\* (applied: the controller has applied the request and crashed before the reply)
Pending(f) ==
    [k \in DOMAIN f.args \cup {"req", "applied"} |->
        IF k = "req" THEN f.req ELSE IF k = "applied" THEN FALSE ELSE f.args[k]]

\* the controller runs the request of the call cl sent through the handle of
\* c, checkpoints an accepted mutation and acknowledges
Answer(c, cl) ==
    IF Reach(c) # "ok"
    THEN /\ Finish(c, cl, Reach(c), "mutation")
         /\ UNCHANGED <<ctrlVars, controller>>
    ELSE LET name == NameOf(controller[c])
             a == Apply(reg[name], cl.req)
         IN /\ reg' = [reg EXCEPT ![name] = a.reg]
            /\ checkpoint' = IF a.outcome = "ok"
                             THEN [checkpoint EXCEPT ![name] = a.reg]
                             ELSE checkpoint
            /\ Finish(c, cl, a.outcome, "mutation")
            /\ UNCHANGED <<named, nextId, up, shutting, crashes, controller>>

\* the whole API call: ray.get(controller.<method>.remote(...))
Forward(c, f) ==
    /\ CanStart(c)
    /\ Responsive(c)
    /\ IF ~_get_controller(c) THEN NotConnected(c, f.args.op)
       ELSE IF f.rejected # "pass"
       THEN /\ Finish(c, f.args, f.rejected, "none")
            /\ UNCHANGED <<ctrlVars, controller>>
       ELSE Answer(c, Pending(f))

DeleteEndpoint(c, endpoint) == Forward(c, delete_endpoint(endpoint))

UpdateBackendConfig(c, backend_tag, config_options) ==
    Forward(c, update_backend_config(backend_tag, config_options))

DeleteBackend(c, backend_tag) == Forward(c, delete_backend(backend_tag))

SetTraffic(c, endpoint_name, traffic_policy_dictionary) ==
    Forward(c, set_traffic(endpoint_name, traffic_policy_dictionary))

ShadowTraffic(c, endpoint_name, backend_tag, proportion) ==
    Forward(c, shadow_traffic(endpoint_name, backend_tag, proportion))

\* --------------------------------------------------- serve.create_backend
\* mutant: the check for a registered tag is left out
AlreadyRegistered_unchecked(backend_tag, backends) == FALSE

\* the tag is among the backends list_backends returned
AlreadyRegistered(backend_tag, backends) == backend_tag \in DOMAIN backends

DefaultConfig == [num_replicas |-> 1]

\* create_backend, up to the request to the controller
CreateBackendCheck(c, backend_tag, config) ==
    /\ CanStart(c)
    /\ Responsive(c)
    /\ LET args == [op |-> "create_backend", backend_tag |-> backend_tag, config |-> config]
           Raise(outcome, sent) ==
               /\ Finish(c, args, outcome, sent)
               /\ UNCHANGED <<ctrlVars, controller>>
       IN IF ~_get_controller(c) THEN NotConnected(c, "create_backend")
          ELSE IF Reach(c) # "ok" THEN Raise(Reach(c), "read")
          ELSE IF AlreadyRegistered(backend_tag, get_all_backends(c))
          THEN Raise("ValueError", "read")
          ELSE IF config = BadConfig THEN Raise("TypeError", "read")
          ELSE /\ Begin(c, "rpc", [op |-> "create_backend",
                       backend_tag |-> backend_tag, config |-> config, applied |-> FALSE,
                       req |-> [method |-> "create_backend", tag |-> backend_tag,
                                config |-> IF config = NoneConfig THEN DefaultConfig
                                           ELSE config]])
               /\ UNCHANGED <<ctrlVars, controller>>

\* ------------------------------------------------------------ read calls
\* an API call that checks the connection and reads from the controller:
\* missing is "ok" or the exception the value read leads to
Read(c, args, missing) ==
    /\ CanStart(c)
    /\ Responsive(c)
    /\ IF ~_get_controller(c) THEN NotConnected(c, args.op)
       ELSE /\ Finish(c, args, IF Reach(c) # "ok" THEN Reach(c) ELSE missing, "read")
            /\ UNCHANGED <<ctrlVars, controller>>

Serving(c) == _get_controller(c) /\ Reach(c) = "ok"

ListEndpoints(c) == Read(c, [op |-> "list_endpoints"], "ok")

ListBackends(c) == Read(c, [op |-> "list_backends"], "ok")

GetBackendConfig(c, backend_tag) ==
    Read(c, [op |-> "get_backend_config", backend_tag |-> backend_tag],
         IF Serving(c) /\ backend_tag \notin DOMAIN get_all_backends(c)
         THEN "NotFoundError" ELSE "ok")

GetHandle(c, endpoint_name, missing_ok) ==
    Read(c, [op |-> "get_handle", endpoint_name |-> endpoint_name, missing_ok |-> missing_ok],
         IF Serving(c) /\ ~missing_ok /\ endpoint_name \notin DOMAIN get_all_endpoints(c)
         THEN "AssertionError" ELSE "ok")

\* ------------------------------------------------- the controller answers
\* the pending request of c (of create_backend or create_endpoint, or one
\* sent again after a crash) reaches the controller
ControllerCall(c) ==
    /\ pc[c] = "rpc"
    /\ Responsive(c)
    /\ Answer(c, call[c])

\* The controller applies and checkpoints the request of the call cl of c and
\* crashes before it acknowledges (the crash-after-checkpoint hook): the call
\* stays pending and is sent again after the restart (max_task_retries=-1).
CrashBeforeAck(c, cl) ==
    /\ crashes < MaxCrash
    /\ _get_controller(c)
    /\ Responsive(c)
    /\ Reach(c) = "ok"
    /\ LET name == NameOf(controller[c])
           a == Apply(reg[name], cl.req)
       IN /\ a.outcome = "ok"
          /\ checkpoint' = [checkpoint EXCEPT ![name] = a.reg]
          /\ reg' = [reg EXCEPT ![name] = EmptyReg]
          /\ up' = [up EXCEPT ![name] = FALSE]
          /\ crashes' = crashes + 1
          /\ Begin(c, "rpc", [cl EXCEPT !.applied = TRUE])
          /\ UNCHANGED <<named, nextId, shutting, controller>>

\* the crash hits the pending request of create_backend or create_endpoint
CrashAfterCheckpoint(c) ==
    /\ pc[c] = "rpc"
    /\ CrashBeforeAck(c, call[c])

\* the crash hits the request of a one-request call
ForwardCrash(c, f) ==
    /\ CanStart(c)
    /\ f.rejected = "pass"
    /\ CrashBeforeAck(c, Pending(f))

\* the runtime restarts the crashed controller (max_restarts=-1), which
\* reconstructs its registries from the checkpoint
Restart(name) ==
    /\ named[name] # 0
    /\ ~up[name]
    /\ up' = [up EXCEPT ![name] = TRUE]
    /\ reg' = [reg EXCEPT ![name] = Recover(checkpoint[name])]
    /\ UNCHANGED <<named, nextId, shutting, checkpoint, crashes, controller, pc, call, last, nops>>

\* the one-request calls the clients issue
ForwardInputs ==
    {delete_endpoint(e) : e \in EndpointNames}
    \cup {update_backend_config(t, o) : t \in Tags, o \in Configs \cup {BadConfig}}
    \cup {delete_backend(t) : t \in Tags}
    \cup {set_traffic(e, w) : e \in EndpointNames, w \in WeightInputs}
    \cup {shadow_traffic(a[1], a[2], a[3]) : a \in ShadowTrafficInputs}

Next ==
    \/ \E c \in Clients, name \in NameInputs : InitLookup(c, name)
    \/ \E c \in Clients : InitCreate(c)
    \/ \E c \in Clients : ShutdownCall(c)
    \/ \E c \in Clients : ShutdownKill(c)
    \/ \E c \in Clients, a \in CreateEndpointInputs :
          CreateEndpointCheck(c, a[1], a[2], a[3], a[4])
    \/ \E c \in Clients, e \in EndpointNames : DeleteEndpoint(c, e)
    \/ \E c \in Clients : ListEndpoints(c)
    \/ \E c \in Clients, t \in Tags, o \in Configs \cup {BadConfig} : UpdateBackendConfig(c, t, o)
    \/ \E c \in Clients, t \in Tags : GetBackendConfig(c, t)
    \/ \E c \in Clients, t \in Tags, o \in Configs \cup {NoneConfig, BadConfig} :
          CreateBackendCheck(c, t, o)
    \/ \E c \in Clients : ListBackends(c)
    \/ \E c \in Clients, t \in Tags : DeleteBackend(c, t)
    \/ \E c \in Clients, e \in EndpointNames, w \in WeightInputs : SetTraffic(c, e, w)
    \/ \E c \in Clients, a \in ShadowTrafficInputs : ShadowTraffic(c, a[1], a[2], a[3])
    \/ \E c \in Clients, k \in BOOLEAN : GetHandle(c, "e1", k)
    \/ \E c \in Clients : ControllerCall(c)

Spec == Init /\ [][Next]_vars

\* the same system with the crash-after-checkpoint hook switched on
NextCrash ==
    \/ Next
    \/ \E c \in Clients : CrashAfterCheckpoint(c)
    \/ \E c \in Clients, f \in ForwardInputs : ForwardCrash(c, f)
    \/ \E name \in Names : Restart(name)

SpecCrash == Init /\ [][NextCrash]_vars

\* The system some calls later: client c1 has run init("serve") and
\* create_backend for b1 and for b2 with the default configuration.
WarmReg == [backends |-> [t \in Tags |-> DefaultConfig], endpoints |-> EmptyFcn]

InitWarm ==
    /\ named = [n \in Names |-> 1]
    /\ nextId = 2
    /\ reg = [n \in Names |-> WarmReg]
    /\ up = [n \in Names |-> TRUE]
    /\ shutting = [n \in Names |-> FALSE]
    /\ checkpoint = [n \in Names |-> WarmReg]
    /\ crashes = 0
    /\ controller = [c \in Clients |-> IF c = "c1" THEN 1 ELSE 0]
    /\ pc = [c \in Clients |-> "idle"]
    /\ call = [c \in Clients |-> NoCall]
    /\ last = NoLast
    /\ nops = MaxOps - MaxWarmOps

SpecWarm == InitWarm /\ [][Next]_vars

\* ================================================================ claims
\* an API call of c returns or raises in this step
Returned(c) == nops' = nops + 1 /\ last'.client = c
\* c calls the API function op in this step
Starts(c, op) ==
    /\ pc[c] = "idle"
    /\ \/ pc'[c] # "idle" /\ call'[c].op = op
       \/ Returned(c) /\ last'.args.op = op
\* the outcomes that tell the caller of a conflict
ConflictOutcomes == {"ValueError", "ConflictError"}
Unchanged == reg' = reg /\ checkpoint' = checkpoint

\* C1: create_backend(t, ...) called while t is registered raises the
\* ValueError "already registered" and leaves the registries and the
\* checkpoint as they were.
C1_DuplicateBackendRejected ==
    [][\A c \in Clients, t \in Tags :
          (/\ Starts(c, "create_backend")
           /\ Serving(c)
           /\ t \in DOMAIN get_all_backends(c)
           /\ (IF pc'[c] # "idle" THEN call'[c] ELSE last'.args).backend_tag = t)
          => (Returned(c) /\ last'.outcome = "ValueError" /\ Unchanged)]_vars

C1_Witness ==
    /\ last.args.op = "create_backend"
    /\ last.outcome = "ValueError"
    /\ last.args.backend_tag \in DOMAIN reg["serve"].backends

\* the configuration create_backend registers for the config argument
Supplied(config) == IF config = NoneConfig THEN DefaultConfig ELSE config

\* C2: whatever the interleaving of the callers' reads and requests, a
\* create_backend call for a tag returns normally only if the tag was not
\* registered when its request was handled, and then the registry gains
\* exactly that tag with the caller's configuration; a call that returns
\* while the tag is registered gets the conflict error and changes nothing.
\* So of the callers racing for one tag exactly one succeeds.
C2_OneCreateWins ==
    [][\A c \in Clients :
          (Returned(c) /\ last'.args.op = "create_backend" /\ Serving(c))
          => LET t == last'.args.backend_tag
                 before == get_all_backends(c)
             IN IF t \in DOMAIN before
                THEN last'.outcome \in ConflictOutcomes /\ Unchanged
                ELSE /\ last'.outcome \in {"ok", "TypeError"}
                     /\ last'.outcome = "TypeError" => Unchanged
                     /\ last'.outcome = "ok" =>
                            /\ reg'[NameOf(controller[c])].backends
                                   = Put(before, t, Supplied(last'.args.config))
                            /\ reg'[NameOf(controller[c])].endpoints = get_all_endpoints(c)]_vars

\* the loser of a race: its own check passed, the controller refused, and the
\* registry holds the winner's configuration
C2_Witness ==
    /\ last.args.op = "create_backend"
    /\ last.outcome = "ConflictError"
    /\ last.args.backend_tag \in DOMAIN reg["serve"].backends
    /\ reg["serve"].backends[last.args.backend_tag] # Supplied(last.args.config)

\* C3: every init(name) call returns normally and leaves its caller
\* connected to the one controller registered under the name, however the
\* lookups and creations of several clients interleave.
C3_InitIdempotent ==
    (last.args.op = "init" /\ last.args.name \in Names)
    => /\ last.outcome = "ok"
       /\ named[last.args.name] # 0
       /\ controller[last.client] = named[last.args.name]

\* the methods of a request or of a registered endpoint as a set, case aside
Normalised(methods) == {Upper(methods[i]) : i \in DOMAIN methods}

\* C5: create_endpoint on a registered name raises the duplicate error
\* exactly when the registered endpoint has the same route and the same set
\* of methods; otherwise the request is forwarded to the controller.
C5_DuplicateCheckExact ==
    [][\A c \in Clients :
          LET a == IF pc'[c] # "idle" THEN call'[c] ELSE last'.args IN
          (/\ Starts(c, "create_endpoint")
           /\ Serving(c)
           /\ a.backend \in Tags /\ a.route \in ValidRoutes /\ a.methods \in ValidMethods
           /\ a.endpoint_name \in DOMAIN get_all_endpoints(c))
          => LET old == get_all_endpoints(c)[a.endpoint_name]
                 same == old.route = a.route /\ Normalised(old.methods) = Normalised(a.methods)
             IN IF same
                THEN Returned(c) /\ last'.outcome = "ValueError"
                ELSE pc'[c] = "rpc"]_vars

GuardedOps == {"shutdown", "create_endpoint", "delete_endpoint", "list_endpoints",
               "update_backend_config", "get_backend_config", "create_backend",
               "list_backends", "delete_backend", "set_traffic", "shadow_traffic",
               "get_handle"}

\* a client that holds no controller reference calls an API function other
\* than init: the call raises the not-connected error and nothing is sent
GuardStep(c) ==
    LET a == IF pc'[c] # "idle" THEN call'[c] ELSE last'.args IN
    (/\ pc[c] = "idle"
     /\ controller[c] = 0
     /\ (pc'[c] # "idle" \/ Returned(c))
     /\ a.op \in GuardedOps)
    => /\ Returned(c)
       /\ last'.outcome = "RayServeException"
       /\ last'.sent = "none"
       /\ UNCHANGED <<ctrlVars, controller>>

\* a call other than init and shutdown returns normally only through a
\* reference to a serving controller
SuccessNeedsInit(c) ==
    (Returned(c) /\ last'.outcome = "ok" /\ last'.args.op \in GuardedOps \ {"shutdown"})
    => Serving(c)

\* C7 as stated: the guard, and every shutdown call leaves its caller without
\* a controller reference.
C7_ShutdownAlwaysDisconnects ==
    [][\A c \in Clients :
          /\ GuardStep(c)
          /\ SuccessNeedsInit(c)
          /\ (Returned(c) /\ last'.args.op = "shutdown") => controller'[c] = 0]_vars

\* C7 (amended): the guard holds as stated; a shutdown call that returns
\* normally leaves its caller without a controller reference, one that raises
\* because the controller is already terminated keeps the stale reference;
\* either way no later call succeeds before a new init.
C7_ConnectionGuard ==
    [][\A c \in Clients :
          /\ GuardStep(c)
          /\ SuccessNeedsInit(c)
          /\ (Returned(c) /\ last'.args.op = "shutdown" /\ last'.outcome = "ok")
                => controller'[c] = 0
          /\ (Returned(c) /\ last'.args.op = "shutdown" /\ last'.outcome = "NotFoundError")
                => (controller'[c] = controller[c] /\ ~Alive(controller[c]))
          /\ (Returned(c) /\ last'.args.op = "shutdown")
                => last'.outcome \in {"ok", "NotFoundError", "RayServeException"}]_vars

\* a second process shut the controller down first: shutdown raised and the
\* caller still holds the reference to the terminated controller
C7_Witness ==
    /\ last.args.op = "shutdown"
    /\ last.outcome = "NotFoundError"
    /\ controller[last.client] # 0
    /\ ~Alive(controller[last.client])

\* every backend an endpoint's weights or shadow mapping names is registered
RefIntegrity == \A n \in Names : Referenced(reg[n]) \subseteq DOMAIN reg[n].backends

DeleteBackendStep(c) ==
    (Returned(c) /\ last'.args.op = "delete_backend" /\ Serving(c))
    => LET t == last'.args.backend_tag
           n == NameOf(controller[c])
       IN IF t \in Referenced(reg[n])
          THEN last'.outcome = "ConflictError" /\ Unchanged
          ELSE IF t \in DOMAIN reg[n].backends
          THEN /\ last'.outcome = "ok"
               /\ reg'[n].backends = Remove(reg[n].backends, t)
               /\ reg'[n].endpoints = reg[n].endpoints
          ELSE last'.outcome = "NotFoundError" /\ Unchanged

DeleteEndpointStep(c) ==
    (Returned(c) /\ last'.args.op = "delete_endpoint" /\ Serving(c))
    => reg'[NameOf(controller[c])].backends = get_all_backends(c)

\* C6: in every reachable state each backend named by an endpoint's weights
\* or shadow mapping is registered; delete_backend(t) gets the conflict error
\* and changes nothing while an endpoint names t, and removes t (and nothing
\* else) when none does; delete_endpoint leaves the backends as they are.
C6_ReferentialIntegrity ==
    /\ []RefIntegrity
    /\ [][\A c \in Clients : DeleteBackendStep(c) /\ DeleteEndpointStep(c)]_vars

\* delete_backend was refused for a backend that an endpoint shadows to
C6_Witness ==
    /\ last.args.op = "delete_backend"
    /\ last.outcome = "ConflictError"
    /\ \E e \in DOMAIN reg["serve"].endpoints :
          last.args.backend_tag \in DOMAIN reg["serve"].endpoints[e].shadow

\* a method name and its upper-case form
CasePairs == {<<"GET", "GET">>, <<"get", "GET">>, <<"POST", "POST">>, <<"post", "POST">>}
UpperCaseOf(stored, given) ==
    /\ Len(stored) = Len(given)
    /\ \A i \in DOMAIN given : <<given[i], stored[i]>> \in CasePairs

CreateEndpointStep(c) ==
    (/\ Returned(c) /\ last'.args.op = "create_endpoint" /\ last'.outcome = "ok"
     /\ Serving(c))
    => LET a == last'.args
           n == NameOf(controller[c])
           before == reg[n].endpoints
           after == reg'[n].endpoints
       IN /\ a.endpoint_name \notin DOMAIN before
          /\ DOMAIN after = DOMAIN before \cup {a.endpoint_name}
          /\ \A e \in DOMAIN before : after[e] = before[e]
          /\ after[a.endpoint_name].route = a.route
          /\ UpperCaseOf(after[a.endpoint_name].methods, a.methods)
          /\ DOMAIN after[a.endpoint_name].traffic = {a.backend}
          /\ after[a.endpoint_name].traffic[a.backend] = 10
          /\ reg'[n].backends = reg[n].backends

\* no endpoint is ever registered without weights that sum to 1
PolicyPresent ==
    \A n \in Names : \A e \in DOMAIN reg[n].endpoints :
        /\ DOMAIN reg[n].endpoints[e].traffic # {}
        /\ WeightSum(reg[n].endpoints[e].traffic) = 10

\* C8: a create_endpoint call that returns normally has added, in one step,
\* exactly the endpoint it names, with the route given, the methods given in
\* upper case and the traffic policy {backend: 1.0}; no other endpoint and no
\* backend changes, and no endpoint is ever seen without its policy.
C8_CreateEndpointAtomic ==
    /\ []PolicyPresent
    /\ [][\A c \in Clients : CreateEndpointStep(c)]_vars

C8_Witness ==
    /\ last.args.op = "create_endpoint"
    /\ last.outcome = "ok"
    /\ last.args.methods = <<"post", "GET">>
    /\ reg["serve"].endpoints[last.args.endpoint_name].methods = <<"POST", "GET">>
    /\ reg["serve"].endpoints[last.args.endpoint_name].traffic = [t \in {last.args.backend} |-> 10]

InUnitInterval(proportion) == proportion \in {[tenths |-> k] : k \in 0..10}

RejectedCreateEndpoint(c) ==
    (/\ Returned(c) /\ last'.args.op = "create_endpoint"
     /\ last'.outcome \in {"TypeError", "ValueError"})
    => (last'.sent # "mutation" /\ Unchanged)

MalformedCreateEndpoint(c) ==
    LET a == IF pc'[c] # "idle" THEN call'[c] ELSE last'.args IN
    (/\ Starts(c, "create_endpoint")
     /\ controller[c] # 0
     /\ \/ a.backend \in {NoneVal, NotAStr}
        \/ a.route # NoneRoute /\ (a.route = BadRoute \/ a.route[1] # "/")
        \/ a.methods = NotAList
        \/ NotAStr \in Range(a.methods))
    => /\ Returned(c)
       /\ last'.sent # "mutation"
       /\ Unchanged
       /\ Serving(c) => last'.outcome = "TypeError"

ShadowTrafficStep(c) ==
    (Starts(c, "shadow_traffic") /\ controller[c] # 0)
    => /\ Returned(c)
       /\ IF InUnitInterval(last'.args.proportion)
          THEN last'.sent = "mutation"
          ELSE last'.outcome = "TypeError" /\ last'.sent = "none" /\ Unchanged

\* C9: a create_endpoint call that is rejected (malformed backend, route or
\* methods, or the duplicate check) and a shadow_traffic call with a proportion
\* outside [0,1] raise before any mutating request is sent and leave the
\* registries as they were; shadow_traffic with a proportion in [0,1], 0 and 1
\* included, is forwarded to the controller.
C9_RejectedInputNoMutation ==
    [][\A c \in Clients :
          RejectedCreateEndpoint(c) /\ MalformedCreateEndpoint(c) /\ ShadowTrafficStep(c)]_vars

C9_Witness ==
    /\ last.args.op = "shadow_traffic"
    /\ last.sent = "mutation"
    /\ last.outcome = "ok"
    /\ last.args.proportion = [tenths |-> 10]
    /\ reg["serve"].endpoints # EmptyFcn

ShutdownOrder(c) ==
    (pc[c] = "idle" /\ pc'[c] = "shutdown_kill")
    => LET n == NameOf(controller[c])
       IN /\ reg'[n] = EmptyReg
          /\ checkpoint'[n] = NoCheckpoint
          /\ named' = named
          /\ controller' = controller

ShutdownFinal(c) ==
    (Returned(c) /\ last'.args.op = "shutdown" /\ last'.outcome = "ok")
    => /\ \A n \in Names : named'[n] # controller[c]
       /\ \A n \in Names : named[n] = controller[c] => checkpoint'[n] = NoCheckpoint
       /\ controller'[c] = 0

InitAfterwards(c) ==
    (Returned(c) /\ last'.args.op = "init" /\ last'.outcome = "ok")
    => LET n == last'.args.name
       IN /\ controller'[c] # 0
          /\ named'[n] = controller'[c]
          /\ pc[c] = "init_create" =>
                /\ controller'[c] = nextId
                /\ \A d \in Clients : controller[d] # controller'[c]
                /\ reg'[n] = EmptyReg

\* C10: shutdown first has the controller tear down its state and delete
\* the checkpoint, then kills the controller, then clears the reference; once
\* it has returned no controller is registered under the name, so an init
\* that follows creates a controller with a new identity and empty registries.
C10_ShutdownFinal ==
    [][\A c \in Clients : ShutdownOrder(c) /\ ShutdownFinal(c) /\ InitAfterwards(c)]_vars

\* the second controller of the name, just created, after the first was shut down
C10_Witness ==
    /\ last.args.op = "init"
    /\ last.outcome = "ok"
    /\ controller[last.client] = 2
    /\ named["serve"] = 2
    /\ reg["serve"] = EmptyReg
    /\ checkpoint["serve"] = NoCheckpoint

\* what a running controller holds is what its checkpoint reconstructs
RecoveredIsCheckpoint ==
    \A n \in Names : (named[n] # 0 /\ up[n] /\ ~shutting[n]) => reg[n] = Recover(checkpoint[n])

\* a call whose request was applied before a crash and sent again
RetriedReportedOk(c) ==
    (Returned(c) /\ pc[c] = "rpc" /\ call[c].applied /\ Serving(c))
    => (last'.outcome = "ok" /\ Unchanged)

\* C4: with crashes after the checkpoint and restarts, the registries of the
\* running controller equal the state after the last accepted mutation, and a
\* mutation whose request was sent again is reflected once and reported to
\* its caller as a success.
C4_CrashRecovery ==
    /\ []RecoveredIsCheckpoint
    /\ [][\A c \in Clients : RetriedReportedOk(c)]_vars
====
